---------------------------- MODULE Spec2Model ----------------------------
(***************************************************************************)
(* FD Clarity: the fixed-deposit calculator page (Home), its form schema,  *)
(* and the investment-suggestions server flow.                             *)
(*                                                                         *)
(* Numbers.  A form field holds text (a sequence of characters); the       *)
(* schema coerces it with Number().  A coerced number is a record          *)
(* [ok, val]: ok = FALSE is NaN, otherwise val is the number in units of   *)
(* 1/Scale (hundredths).  Amounts computed by the calculator are exact     *)
(* fractions num/den of arbitrary-size naturals (sequences of base-BigBase *)
(* digits, least significant first), again in units of 1/Scale.  The       *)
(* source computes in IEEE doubles; the model computes the same expression *)
(* over the rationals, i.e. without the rounding of each operation.        *)
(***************************************************************************)
EXTENDS Integers, Sequences, FiniteSets, TLC

\* Two decimal places: the unit of a coerced number is 1/Scale.
Scale == 10 * 10

\* Radix of the arbitrary-size naturals.
BigBase == 10 * 1000

----------------------------------------------------------------------------
(* Arbitrary-size naturals.  The operators avoid deep recursion: carries *)
(* and borrows are found by look-ahead, sums by halving.                  *)

Max(x, y) == IF x >= y THEN x ELSE y

\* Digit i of a, 0 beyond its length.
BigDigit(a, i) == IF i \in DOMAIN a THEN a[i] ELSE 0

\* Drops the leading (most significant, last) zero digits.
BigNorm(a) ==
    LET nz == {i \in DOMAIN a : a[i] # 0}
    IN  IF nz = {} THEN <<>>
        ELSE SubSeq(a, 1, CHOOSE i \in nz : \A j \in nz : j <= i)

RECURSIVE BigOfNat(_)
BigOfNat(n) ==
    IF n = 0 THEN <<>> ELSE <<n % BigBase>> \o BigOfNat(n \div BigBase)

BigAdd(a, b) ==
    LET n == Max(Len(a), Len(b))
        s == [i \in 1..n |-> BigDigit(a, i) + BigDigit(b, i)]
        \* The carry into digit i: a lower digit overflows and every digit
        \* between passes the carry on.
        carry(i) == IF \E j \in 1..(i - 1) :
                          /\ s[j] >= BigBase
                          /\ \A l \in (j + 1)..(i - 1) : s[l] = BigBase - 1
                    THEN 1 ELSE 0
    IN  BigNorm([i \in 1..(n + 1) |->
                    ((IF i <= n THEN s[i] ELSE 0) + carry(i)) % BigBase])

\* a - b, for a >= b.
BigSub(a, b) ==
    LET n == Len(a)
        d == [i \in 1..n |-> a[i] - BigDigit(b, i)]
        borrow(i) == IF \E j \in 1..(i - 1) :
                           /\ d[j] < 0
                           /\ \A l \in (j + 1)..(i - 1) : d[l] = 0
                     THEN 1 ELSE 0
    IN  BigNorm([i \in 1..n |-> (d[i] - borrow(i) + BigBase) % BigBase])

\* a < b, for normalised a and b.
BigLess(a, b) ==
    IF Len(a) # Len(b) THEN Len(a) < Len(b)
    ELSE \E i \in DOMAIN a :
            /\ a[i] < b[i]
            /\ \A j \in (i + 1)..Len(a) : a[j] = b[j]

BigLeq(a, b) == ~BigLess(b, a)

RECURSIVE SumRange(_, _, _)
\* f[lo] + ... + f[hi], by halving the range.
SumRange(f, lo, hi) ==
    IF lo > hi THEN 0
    ELSE IF lo = hi THEN f[lo]
    ELSE LET mid == (lo + hi) \div 2
         IN  SumRange(f, lo, mid) + SumRange(f, mid + 1, hi)

BigMul(a, b) ==
    IF a = <<>> \/ b = <<>> THEN <<>>
    ELSE
    LET n == Len(a) + Len(b)
        \* The digit products of column c, split into low and high digits.
        from(c) == Max(1, c + 1 - Len(b))
        upto(c) == IF c <= Len(a) THEN c ELSE Len(a)
        colLo == [c \in 1..n |->
                    SumRange([i \in from(c)..upto(c) |-> (a[i] * b[c + 1 - i]) % BigBase],
                             from(c), upto(c))]
        colHi == [c \in 1..n |->
                    SumRange([i \in from(c)..upto(c) |-> (a[i] * b[c + 1 - i]) \div BigBase],
                             from(c), upto(c))]
        wide == [c \in 1..n |-> colLo[c] + (IF c > 1 THEN colHi[c - 1] ELSE 0)]
    IN  BigAdd(BigNorm([c \in 1..n |-> wide[c] % BigBase]),
               BigNorm(<<0>> \o [c \in 1..n |-> wide[c] \div BigBase]))

RECURSIVE BigPow(_, _)
\* m ^ k for a machine-size m, by squaring.
BigPow(m, k) ==
    IF k = 0 THEN <<1>>
    ELSE LET h == BigPow(m, k \div 2)
             sq == BigMul(h, h)
         IN  IF k % 2 = 0 THEN sq ELSE BigMul(sq, BigOfNat(m))

----------------------------------------------------------------------------
(* Exact fractions: [neg, num, den] with den > 0 *)

RatOfInt(i) ==
    [neg |-> i < 0, num |-> BigOfNat(IF i < 0 THEN -i ELSE i), den |-> <<1>>]

RatIsZero(x) == x.num = <<>>

\* x - y for fractions of the same denominator.
RatSubSameDen(x, y) ==
    IF x.neg = y.neg
    THEN IF BigLeq(y.num, x.num)
         THEN [neg |-> x.neg /\ x.num # y.num, num |-> BigSub(x.num, y.num), den |-> x.den]
         ELSE [neg |-> ~x.neg, num |-> BigSub(y.num, x.num), den |-> x.den]
    ELSE [neg |-> x.neg, num |-> BigAdd(x.num, y.num), den |-> x.den]

RatSub(x, y) ==
    RatSubSameDen([neg |-> x.neg, num |-> BigMul(x.num, y.den), den |-> BigMul(x.den, y.den)],
                  [neg |-> y.neg, num |-> BigMul(y.num, x.den), den |-> BigMul(x.den, y.den)])

RatLeq(x, y) ==
    LET l == BigMul(x.num, y.den)
        r == BigMul(y.num, x.den)
    IN  CASE x.neg /\ ~y.neg -> TRUE
          [] ~x.neg /\ y.neg -> RatIsZero(x) /\ RatIsZero(y)
          [] ~x.neg /\ ~y.neg -> BigLeq(l, r)
          [] OTHER -> BigLeq(r, l)

RatEq(x, y) == RatLeq(x, y) /\ RatLeq(y, x)

----------------------------------------------------------------------------
(* Number(): coercion of a field's text, as z.coerce.number() applies it *)

Null == <<>>
Some(x) == <<x>>

DigitChars == <<"0", "1", "2", "3", "4", "5", "6", "7", "8", "9">>

IsDigit(c) == \E i \in DOMAIN DigitChars : DigitChars[i] = c

DigitVal(c) == (CHOOSE i \in DOMAIN DigitChars : DigitChars[i] = c) - 1

RECURSIVE DecVal(_)
\* The value of a run of decimal digits.
DecVal(ds) ==
    IF ds = <<>> THEN 0
    ELSE DecVal(SubSeq(ds, 1, Len(ds) - 1)) * 10 + DigitVal(ds[Len(ds)])

NaN == [ok |-> FALSE, val |-> 0]

Num(v) == [ok |-> TRUE, val |-> v]

\* Number(text) for text over digits, ".", "-" and other characters: the empty
\* text is 0; an optional "-", digits with at most one ".", at least one digit;
\* anything else is NaN.  At most two fraction digits are representable.
NumberOf(text) ==
    LET neg  == text # <<>> /\ text[1] = "-"
        body == IF neg THEN Tail(text) ELSE text
        dots == {i \in DOMAIN body : body[i] = "."}
        dot  == IF dots = {} THEN Len(body) + 1 ELSE CHOOSE i \in dots : TRUE
        int  == SubSeq(body, 1, dot - 1)
        frac == SubSeq(body, dot + 1, Len(body))
        wellFormed ==
            /\ \A i \in DOMAIN body : IsDigit(body[i]) \/ body[i] = "."
            /\ Cardinality(dots) <= 1
            /\ \E i \in DOMAIN body : IsDigit(body[i])
            /\ Len(frac) <= 2
        mag  == DecVal(int) * Scale
                + (IF Len(frac) = 1 THEN DecVal(frac) * 10 ELSE DecVal(frac))
    IN  IF text = <<>> THEN Num(0)
        ELSE IF ~wellFormed THEN NaN
        ELSE Num(IF neg THEN -mag ELSE mag)

IsInt(x) == x.ok /\ x.val % Scale = 0

----------------------------------------------------------------------------
(* formSchema *)

RiskProfiles == {"conservative", "moderate", "aggressive"}

\* z.coerce.number().min(1)
PrincipalOk(text) ==
    LET x == NumberOf(text) IN x.ok /\ x.val >= 1 * Scale

\* z.coerce.number().min(0.1).max(100)
RateOk(text) ==
    LET x == NumberOf(text) IN x.ok /\ x.val * 10 >= 1 * Scale /\ x.val <= 100 * Scale

\* z.coerce.number().int().min(1)
YearsOk(text) ==
    LET x == NumberOf(text) IN x.ok /\ IsInt(x) /\ x.val >= 1 * Scale

\* z.string(): every text passes.
CompoundingOk(text) == Len(text) >= 0

\* z.enum([...]).default("moderate")
RiskProfileOk(rp) == rp \in RiskProfiles

\* The fields of f that fail: the keys of formState.errors after a submit.
FieldErrors(f) ==
    {k \in {"principal"} : ~PrincipalOk(f.principal)}
    \cup {k \in {"rate"} : ~RateOk(f.rate)}
    \cup {k \in {"years"} : ~YearsOk(f.years)}
    \cup {k \in {"compounding"} : ~CompoundingOk(f.compounding)}
    \cup {k \in {"riskProfile"} : ~RiskProfileOk(f.riskProfile)}

\* The parsed FormValues handed to onSubmit.
ParsedValues(f) ==
    [principal   |-> NumberOf(f.principal).val,
     rate        |-> NumberOf(f.rate).val,
     years       |-> NumberOf(f.years).val,
     compounding |-> f.compounding,
     riskProfile |-> f.riskProfile]

----------------------------------------------------------------------------
(* The calculation of onSubmit's timer callback *)

\* n = Number(values.compounding), as a count of periods per year.
CompoundingN(values) == NumberOf(values.compounding).val \div Scale

\* 1 - r / n: the sign of the interest term flipped.
OnePlusRateOverN_Minus(values) ==
    LET N == NumberOf(values.compounding).val
    IN  [num |-> 100 * N - values.rate, den |-> 100 * N]

\* 1 + r / n with r = values.rate / 100, as a fraction of machine integers.
OnePlusRateOverN(values) ==
    LET N == NumberOf(values.compounding).val
    IN  [num |-> 100 * N + values.rate, den |-> 100 * N]

\* Math.pow(base, k) for a natural exponent k.
MathPow(base, k) ==
    [neg |-> FALSE, num |-> BigPow(base.num, k), den |-> BigPow(base.den, k)]

\* P * Math.pow(1 + r / n, t): the exponent without the factor n.
MaturityAmount_ExponentYears(values) ==
    LET t   == values.years \div Scale
        pow == MathPow(OnePlusRateOverN(values), t)
    IN  [neg |-> FALSE,
         num |-> BigMul(BigOfNat(values.principal), pow.num),
         den |-> pow.den]

\* maturityAmount = P * Math.pow(1 + r / n, n * t)
MaturityAmount(values) ==
    LET t   == values.years \div Scale
        pow == MathPow(OnePlusRateOverN(values), CompoundingN(values) * t)
    IN  [neg |-> FALSE,
         num |-> BigMul(BigOfNat(values.principal), pow.num),
         den |-> pow.den]

\* interestEarned = maturityAmount - P
InterestEarned(values, maturityAmount) ==
    RatSub(maturityAmount, RatOfInt(values.principal))

\* The record passed to setResult.
CalculationResult(values) ==
    LET maturityAmount == MaturityAmount(values)
    IN  [principal      |-> values.principal,
         maturityAmount |-> maturityAmount,
         interestEarned |-> InterestEarned(values, maturityAmount)]

----------------------------------------------------------------------------
(* The investment-suggestions flow (server side) *)

\* input.riskProfile ?? 'moderate': only an absent field is defaulted.
FlowRiskProfile_Nullish(input) ==
    IF "riskProfile" \in DOMAIN input THEN input.riskProfile ELSE "moderate"

\* const riskProfile = input.riskProfile || 'moderate': an absent field and
\* the empty string are both falsy.
FlowRiskProfile(input) ==
    IF "riskProfile" \in DOMAIN input /\ input.riskProfile # ""
    THEN input.riskProfile
    ELSE "moderate"

\* enrichedInput = {...input, riskProfile}
EnrichedInput(input) ==
    [k \in DOMAIN input \cup {"riskProfile"} |->
        IF k = "riskProfile" THEN FlowRiskProfile(input) ELSE input[k]]

----------------------------------------------------------------------------
(* Bounds and input sets *)

\* Most callbacks of setTimeout pending at once.
MaxTimers == 2

\* Most calls of getInvestmentSuggestions in flight at once.
MaxCalls == 2

\* Most error toasts counted.
MaxToasts == 1

\* defaultValues of useForm
DefaultValues ==
    [principal   |-> <<"1", "0", "0", "0", "0", "0">>,
     rate        |-> <<"6", ".", "5">>,
     years       |-> <<"5">>,
     compounding |-> <<"4">>,
     riskProfile |-> "moderate"]

\* compoundingOptions: the values the Select offers.
CompoundingOptions == {<<"1">>, <<"2">>, <<"4">>, <<"1", "2">>}

\* What the user enters on the page, per field.
Typed ==
    [principal   |-> {DefaultValues.principal},
     rate        |-> {DefaultValues.rate, <<"7">>},
     years       |-> {DefaultValues.years, <<"0">>},
     compounding |-> {DefaultValues.compounding}]

\* Form values the validator and the calculator are sampled on.
SamplePrincipal ==
    {<<>>, <<"0">>, <<"0", ".", "5">>, <<"1">>, <<"-", "5">>,
     <<"1", ",", "5">>, DefaultValues.principal}
SampleRate ==
    {<<"0">>, <<"0", ".", "0", "5">>, <<"0", ".", "1">>, <<"6", ".", "5">>,
     <<"1", "0", "0">>, <<"1", "0", "0", ".", "1">>, <<"-", "1">>}
SampleYears ==
    {<<"0">>, <<"1">>, <<"1", ".", "5">>, <<"2">>, <<"5">>, <<"-", "1">>}
SampleCompounding == CompoundingOptions \cup {<<"3">>}

\* Requests the exported getInvestmentSuggestions is sampled on: riskProfile
\* is z.string().optional(), so any string or no field at all.
SampleRiskProfile == RiskProfiles \cup {"", "balanced"}

SampleFlowInput ==
    [fdAmount : {1 * Scale, 100000 * Scale},
     interestRate : {<<"6", ".", "5">>, <<"7">>},
     period : {<<"1">>, <<"5">>},
     maturityAmount : {RatOfInt(2 * Scale), RatOfInt(140000 * Scale)},
     interestEarned : {RatOfInt(1 * Scale)},
     riskProfile : SampleRiskProfile]
    \cup
    [fdAmount : {1 * Scale, 100000 * Scale},
     interestRate : {<<"6", ".", "5">>, <<"7">>},
     period : {<<"1">>, <<"5">>},
     maturityAmount : {RatOfInt(2 * Scale), RatOfInt(140000 * Scale)},
     interestEarned : {RatOfInt(1 * Scale)}]

\* The forms the model can hold that the schema accepts.
AcceptedForms ==
    {f \in [principal : SamplePrincipal \cup Typed.principal,
            rate : SampleRate \cup Typed.rate,
            years : SampleYears \cup Typed.years,
            compounding : SampleCompounding \cup Typed.compounding,
            riskProfile : {"moderate"}] : FieldErrors(f) = {}}

\* CalculationResult of every accepted form's values, computed once.
Calculated ==
    [values \in {ParsedValues(f) : f \in AcceptedForms} |-> CalculationResult(values)]

\* What the timer callback passes to setResult.
ResultOf(values) ==
    IF values \in DOMAIN Calculated THEN Calculated[values] ELSE CalculationResult(values)

----------------------------------------------------------------------------
(* State *)

VARIABLES
    form,                   \* the values of useForm's fields, as text
    errors,                 \* formState.errors: the fields the last submit failed on
    result,                 \* useState<CalculationResult | null>
    aiSuggestion,           \* useState<string | null>
    isCalculating,          \* useState(false)
    isFetchingSuggestions,  \* useState(false)
    timers,                 \* pending setTimeout callbacks, each with its values
    calls,                  \* getInvestmentSuggestions calls in flight
    toasts,                 \* the number of error toasts shown
    resultFrom,             \* history: the values result was computed from
    cleared                 \* history: what handleClear has set to null with no
                            \* accepted submission ("result") or Get-Insights
                            \* click ("aiSuggestion") since

vars == <<form, errors, result, aiSuggestion, isCalculating,
          isFetchingSuggestions, timers, calls, toasts, resultFrom, cleared>>

Init ==
    /\ form = DefaultValues
    /\ errors = {}
    /\ result = Null
    /\ aiSuggestion = Null
    /\ isCalculating = FALSE
    /\ isFetchingSuggestions = FALSE
    /\ timers = <<>>
    /\ calls = <<>>
    /\ toasts = 0
    /\ resultFrom = Null
    /\ cleared = {}

\* The page with any sampled values already entered in the form.
InitSampled ==
    /\ form \in [principal : SamplePrincipal, rate : SampleRate,
                 years : SampleYears, compounding : SampleCompounding,
                 riskProfile : {"moderate"}]
    /\ errors = {}
    /\ result = Null
    /\ aiSuggestion = Null
    /\ isCalculating = FALSE
    /\ isFetchingSuggestions = FALSE
    /\ timers = <<>>
    /\ calls = <<>>
    /\ toasts = 0
    /\ resultFrom = Null
    /\ cleared = {}

----------------------------------------------------------------------------
(* Handlers of the page *)

\* field.onChange of the three inputs, and onValueChange of the Select.
EditField ==
    /\ \E k \in DOMAIN Typed : \E v \in Typed[k] :
          /\ form[k] # v
          /\ form' = [form EXCEPT ![k] = v]
    /\ UNCHANGED <<errors, result, aiSuggestion, isCalculating,
                   isFetchingSuggestions, timers, calls, toasts, resultFrom,
                   cleared>>

\* onSubmit(values), up to the scheduling of the timer.
onSubmit(values) ==
    /\ isCalculating' = TRUE
    /\ aiSuggestion' = Null
    /\ timers' = Append(timers, [values |-> values])
    /\ cleared' = cleared \ {"result"}
    /\ UNCHANGED <<result, resultFrom>>

\* handleSubmit calling onSubmit whatever the resolver reports.
handleSubmit_IgnoresErrors ==
    /\ ~isCalculating
    /\ Len(timers) < MaxTimers
    /\ errors' = FieldErrors(form)
    /\ onSubmit(ParsedValues(form))
    /\ UNCHANGED <<form, isFetchingSuggestions, calls, toasts>>

\* handleSubmit with a submit button that is never disabled.
handleSubmit_NeverDisabled ==
    /\ Len(timers) < MaxTimers
    /\ errors' = FieldErrors(form)
    /\ IF FieldErrors(form) = {}
       THEN onSubmit(ParsedValues(form))
       ELSE UNCHANGED <<result, aiSuggestion, isCalculating, timers, resultFrom,
                        cleared>>
    /\ UNCHANGED <<form, isFetchingSuggestions, calls, toasts>>

\* form.handleSubmit(onSubmit) on a submit of the form; the submit button is
\* disabled while isCalculating.
handleSubmit ==
    /\ ~isCalculating
    /\ Len(timers) < MaxTimers
    /\ errors' = FieldErrors(form)
    /\ IF FieldErrors(form) = {}
       THEN onSubmit(ParsedValues(form))
       ELSE UNCHANGED <<result, aiSuggestion, isCalculating, timers, resultFrom,
                        cleared>>
    /\ UNCHANGED <<form, isFetchingSuggestions, calls, toasts>>

\* The callback reading the form when it runs instead of its own values.
TimerFires_ReadsForm ==
    /\ timers # <<>>
    /\ LET values == ParsedValues(form)
       IN  /\ result' = Some(ResultOf(values))
           /\ resultFrom' = Some(values)
    /\ isCalculating' = FALSE
    /\ timers' = Tail(timers)
    /\ UNCHANGED <<form, errors, aiSuggestion, isFetchingSuggestions, calls, toasts,
                   cleared>>

\* The callback of setTimeout, 500 ms after onSubmit.
TimerFires ==
    /\ timers # <<>>
    /\ LET values == Head(timers).values
       IN  /\ result' = Some(ResultOf(values))
           /\ resultFrom' = Some(values)
    /\ isCalculating' = FALSE
    /\ timers' = Tail(timers)
    /\ UNCHANGED <<form, errors, aiSuggestion, isFetchingSuggestions, calls, toasts,
                   cleared>>

\* handleClear: form.reset() restores the default values and clears the errors.
handleClear ==
    /\ form' = DefaultValues
    /\ errors' = {}
    /\ result' = Null
    /\ aiSuggestion' = Null
    /\ cleared' = {"result", "aiSuggestion"}
    /\ UNCHANGED <<isCalculating, isFetchingSuggestions, timers, calls, toasts,
                   resultFrom>>

\* The input handleGetSuggestions builds.
SuggestionsInput ==
    [fdAmount       |-> result[1].principal,
     interestRate   |-> form.rate,
     period         |-> form.years,
     maturityAmount |-> result[1].maturityAmount,
     interestEarned |-> result[1].interestEarned,
     riskProfile    |-> form.riskProfile]

\* handleGetSuggestions, up to the await; its button is rendered with a
\* result and disabled while isFetchingSuggestions.
handleGetSuggestions ==
    /\ result # Null
    /\ ~isFetchingSuggestions
    /\ Len(calls) < MaxCalls
    /\ isFetchingSuggestions' = TRUE
    /\ calls' = Append(calls, [input |-> SuggestionsInput, prompt |-> Null])
    /\ cleared' = cleared \ {"aiSuggestion"}
    /\ UNCHANGED <<form, errors, result, aiSuggestion, isCalculating, timers,
                   toasts, resultFrom>>

\* investmentSuggestionsFlow on the server: prompt(enrichedInput) is called.
investmentSuggestionsFlow ==
    /\ \E i \in DOMAIN calls :
          /\ calls[i].prompt = Null
          /\ calls' = [calls EXCEPT ![i].prompt = Some(EnrichedInput(calls[i].input))]
    /\ UNCHANGED <<form, errors, result, aiSuggestion, isCalculating,
                   isFetchingSuggestions, timers, toasts, resultFrom, cleared>>

\* calls without its i-th element.
Without(s, i) == SubSeq(s, 1, i - 1) \o SubSeq(s, i + 1, Len(s))

\* The await returns: setAiSuggestion(response.suggestions), then finally.
\* The opaque text is modelled by the prompt input it answers.
SuggestionsResolved ==
    /\ \E i \in DOMAIN calls :
          /\ calls[i].prompt # Null
          /\ aiSuggestion' = Some([answers |-> calls[i].prompt[1]])
          /\ calls' = Without(calls, i)
    /\ isFetchingSuggestions' = FALSE
    /\ UNCHANGED <<form, errors, result, isCalculating, timers, toasts, resultFrom,
                   cleared>>

\* The catch without the finally: isFetchingSuggestions is left set.
SuggestionsRejected_NoFinally ==
    /\ toasts < MaxToasts
    /\ \E i \in DOMAIN calls : calls' = Without(calls, i)
    /\ toasts' = toasts + 1
    /\ UNCHANGED <<form, errors, result, aiSuggestion, isCalculating, timers,
                   resultFrom, isFetchingSuggestions, cleared>>

\* The await throws (network, schema or model error): catch, then finally.
SuggestionsRejected ==
    /\ toasts < MaxToasts
    /\ \E i \in DOMAIN calls : calls' = Without(calls, i)
    /\ toasts' = toasts + 1
    /\ isFetchingSuggestions' = FALSE
    /\ UNCHANGED <<form, errors, result, aiSuggestion, isCalculating, timers,
                   resultFrom, cleared>>

Next ==
    \/ EditField
    \/ handleSubmit
    \/ TimerFires
    \/ handleClear
    \/ handleGetSuggestions
    \/ investmentSuggestionsFlow
    \/ SuggestionsResolved
    \/ SuggestionsRejected

Spec == Init /\ [][Next]_vars

\* A callback scheduled with setTimeout is run: the timer always fires.
FairSpec == Spec /\ WF_vars(TimerFires)

\* The validator and the calculator on sampled form values.
NextSampled == handleSubmit \/ TimerFires

CalcSpec == InitSampled /\ [][NextSampled]_vars

\* The flow on sampled requests: one call of the exported server action has
\* arrived and awaits the flow.
InitFlow ==
    /\ form = DefaultValues
    /\ errors = {}
    /\ result = Null
    /\ aiSuggestion = Null
    /\ isCalculating = FALSE
    /\ isFetchingSuggestions = FALSE
    /\ timers = <<>>
    /\ calls \in {<<[input |-> i, prompt |-> Null]>> : i \in SampleFlowInput}
    /\ toasts = 0
    /\ resultFrom = Null
    /\ cleared = {}

NextFlow == investmentSuggestionsFlow

FlowSpec == InitFlow /\ [][NextFlow]_vars

----------------------------------------------------------------------------
(* Properties *)

\* The frequencies the specification allows: those of compoundingOptions.
AllowedFrequencies == {NumberOf(o).val \div Scale : o \in CompoundingOptions}

\* The constraints on the numeric fields as the specification states them:
\* principal > 0, 0 < rate <= 100, years an integer >= 1.
StatedNumericConstraints(f) ==
    LET p == NumberOf(f.principal)
        r == NumberOf(f.rate)
        y == NumberOf(f.years)
    IN  /\ p.ok /\ p.val > 0
        /\ r.ok /\ r.val > 0 /\ r.val <= 100 * Scale
        /\ y.ok /\ y.val % Scale = 0 /\ y.val >= 1 * Scale

\* The form has been submitted (under CalcSpec the form is never edited).
Submitted == errors # {} \/ isCalculating \/ result # Null

\* C1: the calculation never runs with n = Number(compounding) outside
\* {1, 2, 4, 12}: no pending timer callback and no stored result was given
\* such a frequency.
C1_OnlyAllowedFrequenciesReachCalculator ==
    /\ \A i \in DOMAIN timers : CompoundingN(timers[i].values) \in AllowedFrequencies
    /\ resultFrom # Null => CompoundingN(resultFrom[1]) \in AllowedFrequencies

\* C2: a submission is accepted on principal, rate and years exactly when
\* principal > 0, 0 < rate <= 100 and years is an integer >= 1.
C2_AcceptedIffStatedConstraints ==
    Submitted =>
        ((errors \cap {"principal", "rate", "years"} = {})
            <=> StatedNumericConstraints(form))

\* C3: a submission that fails validation (a step that sets formState.errors
\* to a new non-empty set) happens with isCalculating false and leaves
\* isCalculating, the timers, result and aiSuggestion as they were.
C3_FailedValidationChangesNothing ==
    [][(errors' # {} /\ errors' # errors) =>
          /\ ~isCalculating /\ ~isCalculating'
          /\ timers' = timers
          /\ result' = result
          /\ aiSuggestion' = aiSuggestion]_vars

\* C3 witness: a failed submission after a calculation and a suggestion, both
\* still displayed.
C3_Witness ==
    /\ errors # {}
    /\ result # Null
    /\ aiSuggestion # Null
    /\ ~isCalculating
    /\ timers = <<>>

\* The form holds values inside the stated bounds, with an allowed frequency.
StatedValid(f) ==
    /\ StatedNumericConstraints(f)
    /\ NumberOf(f.compounding).ok
    /\ NumberOf(f.compounding).val % Scale = 0
    /\ NumberOf(f.compounding).val \div Scale \in AllowedFrequencies

\* principal * (1 + (rate / 100) / frequency) ^ (frequency * years), from the
\* numbers p, r, y (units of 1/Scale) and the frequency n.
StatedMaturity(p, r, n, y) ==
    [neg |-> FALSE,
     num |-> BigMul(BigOfNat(p), BigPow(100 * Scale * n + r, n * (y \div Scale))),
     den |-> BigPow(100 * Scale * n, n * (y \div Scale))]

\* C4: for every accepted input inside the stated bounds, the stored result
\* has principal = the submitted principal, maturityAmount >= principal,
\* interestEarned >= 0, interestEarned = maturityAmount - principal, and
\* maturityAmount = principal * (1 + (rate/100)/frequency)^(frequency*years).
\* (Under CalcSpec the form still holds the submitted values.)
C4_ResultWithinContract ==
    (result # Null /\ StatedValid(form)) =>
        LET p == NumberOf(form.principal).val
            r == NumberOf(form.rate).val
            y == NumberOf(form.years).val
            n == NumberOf(form.compounding).val \div Scale
            res == result[1]
        IN  /\ res.principal = p
            /\ RatLeq(RatOfInt(p), res.maturityAmount)
            /\ RatLeq(RatOfInt(0), res.interestEarned)
            /\ RatEq(RatSub(res.maturityAmount, res.interestEarned), RatOfInt(p))
            /\ RatEq(res.maturityAmount, StatedMaturity(p, r, n, y))

\* C4 witness: a result for monthly compounding over five years, with
\* interest strictly positive.
C4_Witness ==
    /\ result # Null
    /\ form.compounding = <<"1", "2">>
    /\ form.years = <<"5">>
    /\ form.rate = <<"0", ".", "1">>
    /\ form.principal = <<"1">>
    /\ ~RatLeq(result[1].interestEarned, RatOfInt(0))

\* The sampled form values inside the stated bounds.
ValidSamples ==
    {f \in [principal : SamplePrincipal, rate : SampleRate, years : SampleYears,
            compounding : SampleCompounding, riskProfile : {"moderate"}] :
        StatedValid(f) /\ FieldErrors(f) = {}}

\* g is f with exactly one of years, rate, frequency larger and the rest equal.
OneArgumentLarger(f, g) ==
    LET more(k) == NumberOf(f[k]).val < NumberOf(g[k]).val
        same(k) == NumberOf(f[k]).val = NumberOf(g[k]).val
    IN  /\ same("principal")
        /\ \/ more("years") /\ same("rate") /\ same("compounding")
           \/ same("years") /\ more("rate") /\ same("compounding")
           \/ same("years") /\ same("rate") /\ more("compounding")

\* C5: the maturity amount is monotone in each argument over the allowed
\* inputs: the stored maturityAmount is no more than the one computed after
\* increasing years, or rate, or frequency within {1, 2, 4, 12}.
C5_MaturityMonotone ==
    (result # Null /\ StatedValid(form)) =>
        \A g \in ValidSamples :
            OneArgumentLarger(form, g) =>
                RatLeq(result[1].maturityAmount, MaturityAmount(ParsedValues(g)))

\* C5 witness: a stored result for annual compounding that monthly
\* compounding of the same deposit strictly exceeds.
C5_Witness ==
    /\ result # Null
    /\ form.principal = DefaultValues.principal
    /\ form.rate = <<"6", ".", "5">>
    /\ form.years = <<"2">>
    /\ form.compounding = <<"1">>
    /\ ~RatLeq(MaturityAmount(ParsedValues([form EXCEPT !.compounding = <<"1", "2">>])),
               result[1].maturityAmount)

\* The fields of a request other than riskProfile reach the prompt unchanged.
OthersPassedThrough(call) ==
    /\ DOMAIN call.prompt[1] = DOMAIN call.input \cup {"riskProfile"}
    /\ \A k \in DOMAIN call.input \ {"riskProfile"} : call.prompt[1][k] = call.input[k]

\* C6 as stated: the prompt gets the request's riskProfile when one is
\* provided and "moderate" when it is absent; the rest is passed unchanged.
C6_ProvidedRiskProfilePassedThrough ==
    \A i \in DOMAIN calls :
        calls[i].prompt # Null =>
            /\ calls[i].prompt[1].riskProfile =
                  (IF "riskProfile" \in DOMAIN calls[i].input
                   THEN calls[i].input.riskProfile ELSE "moderate")
            /\ OthersPassedThrough(calls[i])

\* C6 amended: the prompt gets the request's riskProfile when a non-empty one
\* is provided and "moderate" when it is absent or the empty string; the
\* rest is passed unchanged.
C6_NonEmptyRiskProfilePassedThrough ==
    \A i \in DOMAIN calls :
        calls[i].prompt # Null =>
            /\ calls[i].prompt[1].riskProfile =
                  (IF "riskProfile" \in DOMAIN calls[i].input
                      /\ calls[i].input.riskProfile # ""
                   THEN calls[i].input.riskProfile ELSE "moderate")
            /\ OthersPassedThrough(calls[i])

\* C6 witness: the prompt was called for a request without riskProfile.
C6_Witness ==
    \E i \in DOMAIN calls :
        /\ "riskProfile" \notin DOMAIN calls[i].input
        /\ calls[i].prompt # Null
        /\ calls[i].prompt[1].riskProfile = "moderate"

\* C7: at most one timer is pending and at most one suggestion request is in
\* flight, and while one is, its control is disabled.
C7_AtMostOneInFlight ==
    /\ Len(timers) <= 1
    /\ Len(calls) <= 1
    /\ timers # <<>> => isCalculating
    /\ calls # <<>> => isFetchingSuggestions

\* C7 witness: a timer and a suggestion request outstanding together.
C7_Witness == Len(timers) = 1 /\ Len(calls) = 1

\* C8: a suggestion call that settles leaves isFetchingSuggestions false and
\* result unchanged; when it fails, exactly one error is reported and
\* aiSuggestion is unchanged; it never both reports an error and succeeds.
C8_FailureReportedOnceAndRecovered ==
    [][Len(calls') < Len(calls) =>
          /\ ~isFetchingSuggestions'
          /\ result' = result
          /\ \/ toasts' = toasts + 1 /\ aiSuggestion' = aiSuggestion
             \/ toasts' = toasts /\ aiSuggestion' # Null]_vars

\* C8 witness: a call has failed and its error was reported; a result and a
\* suggestion are displayed and the button is enabled again.
C8_Witness ==
    /\ toasts = 1
    /\ result # Null
    /\ aiSuggestion # Null
    /\ ~isFetchingSuggestions
    /\ calls = <<>>

\* C9: an accepted submission sets isCalculating and clears aiSuggestion at
\* once and schedules the callback with the values submitted; while
\* isCalculating no submission starts; when the timer fires the result of
\* exactly those values is stored and isCalculating is reset; and the timer
\* does fire.
C9_SubmissionCalculatesItsOwnValues ==
    /\ [][Len(timers') > Len(timers) =>
             /\ ~isCalculating /\ isCalculating'
             /\ aiSuggestion' = Null
             /\ FieldErrors(form) = {}
             /\ timers' = timers \o <<[values |-> ParsedValues(form)]>>]_vars
    /\ [][Len(timers') < Len(timers) =>
             /\ result' = Some(ResultOf(Head(timers).values))
             /\ ~isCalculating']_vars
    /\ [](isCalculating => Len(timers) = 1)
    /\ (isCalculating ~> ~isCalculating)

\* C9 witness: a result stored after the form was edited during the delay: it
\* is the result of the submitted rate, not of the rate now in the form.
C9_Witness ==
    /\ result # Null
    /\ ~isCalculating
    /\ resultFrom[1].rate # NumberOf(form.rate).val
    /\ RatEq(result[1].maturityAmount,
             StatedMaturity(resultFrom[1].principal, resultFrom[1].rate,
                            CompoundingN(resultFrom[1]), resultFrom[1].years))

\* C10: every suggestion request, when it is built, carries the stored
\* result's principal, maturityAmount and interestEarned, and the rate and
\* years that result was computed from.
C10_RequestConsistentWithResult ==
    [][Len(calls') > Len(calls) =>
          LET req == calls'[Len(calls')].input
          IN  /\ req.fdAmount = result[1].principal
              /\ req.maturityAmount = result[1].maturityAmount
              /\ req.interestEarned = result[1].interestEarned
              /\ NumberOf(req.interestRate).val = resultFrom[1].rate
              /\ NumberOf(req.period).val = resultFrom[1].years]_vars

\* C11: Reset is effective under any interleaving: once handleClear has run,
\* result is null until the next accepted submission and aiSuggestion is null
\* until the next Get-Insights click, whatever timer or request was pending
\* when it ran.
C11_ResetStaysEffective ==
    /\ "result" \in cleared => result = Null
    /\ "aiSuggestion" \in cleared => aiSuggestion = Null

\* C12: a displayed suggestion belongs to the displayed result: whenever
\* aiSuggestion is not null, result is not null and the suggestion answers a
\* request built from that result (its principal, maturityAmount and
\* interestEarned).
C12_SuggestionBelongsToResult ==
    aiSuggestion # Null =>
        /\ result # Null
        /\ aiSuggestion[1].answers.fdAmount = result[1].principal
        /\ aiSuggestion[1].answers.maturityAmount = result[1].maturityAmount
        /\ aiSuggestion[1].answers.interestEarned = result[1].interestEarned

============================================================================
